---- MODULE Spec2Model ----
(***************************************************************************)
(* Wire-schema layer of the datatypes crate: the adjacently tagged request *)
(* envelopes (AdminRequest, AuthRequest), the empty payload markers and    *)
(* the flattening metadata wrappers (TokenPayload, UserIdPayload).         *)
(*                                                                         *)
(* The codecs are the ones the serde derives generate for the declared     *)
(* attributes, run against JSON.  A JSON document is modelled as a parsed  *)
(* tree whose objects keep the order and multiplicity of their members and *)
(* whose strings keep their raw text (escapes included), because both are  *)
(* visible to the derived decoders.                                        *)
(***************************************************************************)
EXTENDS Integers, Sequences, FiniteSets, TLC

VARIABLES op, arg, wire, out, w, bare, metaLog, ret

vars == <<op, arg, wire, out, w, bare, metaLog, ret>>

(***************************************************************************)
(* Bounds of the model.                                                    *)
(***************************************************************************)
\* longest string held by a string field of a request
MaxStrLen == 1
\* most members of a received envelope object
MaxMembers == 2
\* most members of a received flat wrapper object
MaxFlatMembers == 3
\* largest value of an integer field of an inner record
MaxVal == 1
\* largest user id
MaxUserId == 2

(***************************************************************************)
(* Results.                                                                *)
(***************************************************************************)
Ok(v) == [ok |-> TRUE, v |-> v]
Err(e) == [ok |-> FALSE, err |-> e]
MissingFieldErr(name) == [ok |-> FALSE, err |-> "missing field", field |-> name]
DuplicateFieldErr(name) == [ok |-> FALSE, err |-> "duplicate field", field |-> name]

None == [some |-> FALSE]
Some(x) == [some |-> TRUE, v |-> x]

(***************************************************************************)
(* JSON values.                                                            *)
(***************************************************************************)
Null == [k |-> "null"]
Str(text) == [k |-> "str", text |-> text]
Num(n) == [k |-> "num", n |-> n]
Obj(members) == [k |-> "obj", members |-> members]

QUOTE == "\""
BSLASH == "\\"

\* characters of the strings the model draws request fields from
Chars == {"a", QUOTE, BSLASH}

RECURSIVE SeqsUpTo(_, _)
SeqsUpTo(S, n) ==
    IF n = 0 THEN {<<>>}
    ELSE LET shorter == SeqsUpTo(S, n - 1)
         IN  shorter \cup {Append(s, c) : s \in shorter, c \in S}

Strings == SeqsUpTo(Chars, MaxStrLen)

\* serde_json writes a string with '"' and '\' escaped by a backslash
RECURSIVE EscapeStr(_)
EscapeStr(s) ==
    IF s = <<>> THEN <<>>
    ELSE (IF Head(s) \in {QUOTE, BSLASH} THEN <<BSLASH, Head(s)>> ELSE <<Head(s)>>)
         \o EscapeStr(Tail(s))

\* the unescaped content of a raw string text
RECURSIVE Unescape(_)
Unescape(text) ==
    IF text = <<>> THEN <<>>
    ELSE IF Head(text) = BSLASH
         THEN IF Len(text) >= 2 THEN <<text[2]>> \o Unescape(Tail(Tail(text))) ELSE <<>>
         ELSE <<Head(text)>> \o Unescape(Tail(text))

HasEscape(text) == \E i \in 1..Len(text) : text[i] = BSLASH

\* serde_json's parse_str over a str/slice input: the text is lent out of the
\* input when it holds no escape, and copied into a scratch buffer otherwise
ParseStr(text) ==
    IF HasEscape(text) THEN [ref |-> "Copied", s |-> Unescape(text)]
    ELSE [ref |-> "Borrowed", s |-> text]

(***************************************************************************)
(* std::net::IpAddr, written and read as a string (human readable form).   *)
(* Only the V4 form a.b.c.d is modelled.                                   *)
(***************************************************************************)
Octets == {0, 1, 10, 255}
IpAddrs == [1..4 -> Octets]

Digits == <<"0", "1", "2", "3", "4", "5", "6", "7", "8", "9">>
IsDigit(c) == \E d \in 1..10 : Digits[d] = c
DigitVal(c) == (CHOOSE d \in 1..10 : Digits[d] = c) - 1

RECURSIVE FmtNat(_)
FmtNat(n) ==
    IF n < 10 THEN <<Digits[n + 1]>>
    ELSE FmtNat(n \div 10) \o <<Digits[(n % 10) + 1]>>

\* Display for Ipv4Addr
FmtIp(ip) ==
    FmtNat(ip[1]) \o <<".">> \o FmtNat(ip[2]) \o <<".">> \o FmtNat(ip[3])
        \o <<".">> \o FmtNat(ip[4])

\* the parts of s between its dots
RECURSIVE SplitDots(_, _)
SplitDots(s, cur) ==
    IF s = <<>> THEN <<cur>>
    ELSE IF Head(s) = "." THEN <<cur>> \o SplitDots(Tail(s), <<>>)
         ELSE SplitDots(Tail(s), Append(cur, Head(s)))

RECURSIVE DigitsVal(_, _)
DigitsVal(part, acc) ==
    IF part = <<>> THEN acc ELSE DigitsVal(Tail(part), acc * 10 + DigitVal(Head(part)))

OctetOk(part) ==
    /\ Len(part) \in 1..3
    /\ \A i \in 1..Len(part) : IsDigit(part[i])
    /\ Len(part) > 1 => part[1] # "0"
    /\ DigitsVal(part, 0) <= 255

\* FromStr for IpAddr
ParseIp(s) ==
    LET parts == SplitDots(s, <<>>)
    IN  IF Len(parts) = 4 /\ \A i \in 1..4 : OctetOk(parts[i])
        THEN Ok([i \in 1..4 |-> DigitsVal(parts[i], 0)])
        ELSE Err("invalid IP address syntax")

(***************************************************************************)
(* Field types of the request payloads.                                    *)
(***************************************************************************)
\* crate::valid::token::Token: an opaque validated value, a string on the wire
Tokens == {<<"a">>, <<"b">>, <<"a", QUOTE>>}
SerializeToken(t) == Str(EscapeStr(t))
DeserializeToken(value) ==
    IF value.k # "str" THEN Err("invalid type")
    ELSE LET s == ParseStr(value.text).s
         IN  IF s \in Tokens THEN Ok(s) ELSE Err("invalid token")

\* crate::valid::ids::UserId: an opaque validated value, a number on the wire
UserIds == 1..MaxUserId
SerializeUserId(id) == Num(id)
DeserializeUserId(value) ==
    IF value.k # "num" THEN Err("invalid type")
    ELSE IF value.n \in UserIds THEN Ok(value.n) ELSE Err("invalid user id")

SerializeTy(ty, v) ==
    CASE ty = "IpAddr" -> Str(EscapeStr(FmtIp(v)))
      [] ty = "BorrowedStr" -> Str(EscapeStr(v))
      [] ty = "Int" -> Num(v)
      [] ty = "Token" -> SerializeToken(v)
      [] ty = "UserId" -> SerializeUserId(v)

\* Deserialize for &'a str: the visitor takes a string lent out of the input
\* (visit_borrowed_str) and nothing else
DeserializeBorrowedStr(value) ==
    IF value.k # "str" THEN Err("invalid type")
    ELSE LET p == ParseStr(value.text)
         IN  IF p.ref = "Borrowed" THEN Ok(p.s)
             ELSE Err("invalid type: expected a borrowed string")

\* Deserialize for IpAddr: visit_str, then FromStr
DeserializeIpAddr(value) ==
    IF value.k # "str" THEN Err("invalid type")
    ELSE ParseIp(ParseStr(value.text).s)

DeserializeInt(value) ==
    IF value.k # "num" THEN Err("invalid type") ELSE Ok(value.n)

DeserializeTy(ty, value) ==
    CASE ty = "IpAddr" -> DeserializeIpAddr(value)
      [] ty = "BorrowedStr" -> DeserializeBorrowedStr(value)
      [] ty = "Int" -> DeserializeInt(value)
      [] ty = "Token" -> DeserializeToken(value)
      [] ty = "UserId" -> DeserializeUserId(value)

(***************************************************************************)
(* Derived struct codecs.  A struct is described by its fields in declared *)
(* order: the Rust name, the name on the wire and the type.                *)
(***************************************************************************)
Field(name, wireName, ty) == [name |-> name, wire |-> wireName, ty |-> ty]

IpAddrPayloadFields == << Field("ip", "ip", "IpAddr") >>

AuthReqPayloadFields ==
    << Field("raw_username", "username", "BorrowedStr"),
       Field("raw_password", "password", "BorrowedStr") >>

RegisterPayloadFields ==
    << Field("raw_username", "username", "BorrowedStr"),
       Field("raw_password", "password", "BorrowedStr"),
       Field("raw_email", "email", "BorrowedStr") >>

EmptyPayloadStrictFields == << >>

\* the one value of the zero-field record
EmptyPayloadStrict == << >>

WireNames(fields) == {fields[i].wire : i \in 1..Len(fields)}
FieldOfWire(fields, key) == fields[CHOOSE i \in 1..Len(fields) : fields[i].wire = key]

\* derived Serialize of a struct: its fields in declared order
SerializeMembers(fields, v) ==
    [i \in 1..Len(fields) |-> <<fields[i].wire, SerializeTy(fields[i].ty, v[fields[i].name])>>]

SerializeStruct(fields, v) == Obj(SerializeMembers(fields, v))

\* the first declared field that was not read
FirstMissing(fields, acc) ==
    fields[CHOOSE i \in 1..Len(fields) :
              /\ fields[i].name \notin DOMAIN acc
              /\ \A j \in 1..(i - 1) : fields[j].name \in DOMAIN acc]

\* derived visit_map of a struct: a known key is decoded (twice is an error),
\* an unknown key is skipped, a field never seen is an error
RECURSIVE VisitMap(_, _, _)
VisitMap(fields, members, acc) ==
    IF members = <<>>
    THEN IF \E i \in 1..Len(fields) : fields[i].name \notin DOMAIN acc
         THEN MissingFieldErr(FirstMissing(fields, acc).wire)
         ELSE Ok(acc)
    ELSE LET key == members[1][1]
             val == members[1][2]
         IN  IF key \in WireNames(fields)
             THEN LET f == FieldOfWire(fields, key)
                      d == DeserializeTy(f.ty, val)
                  IN  IF f.name \in DOMAIN acc THEN DuplicateFieldErr(key)
                      ELSE IF ~d.ok THEN d
                      ELSE VisitMap(fields, Tail(members), acc @@ (f.name :> d.v))
             ELSE VisitMap(fields, Tail(members), acc)

DeserializeStruct(fields, value) ==
    IF value.k # "obj" THEN Err("invalid type")
    ELSE VisitMap(fields, value.members, << >>)

\* Option<T>: null is None, anything else is handed to T
DeserializeOption(fields, value) ==
    IF value.k = "null" THEN Ok(None)
    ELSE LET r == DeserializeStruct(fields, value)
         IN  IF r.ok THEN Ok(Some(r.v)) ELSE r

\* a faulty encoder that writes None as the empty object too
SerializeOptionAsEmptyObject(fields, v) == Obj(<< >>)

SerializeOption(fields, v) ==
    IF v.some THEN SerializeStruct(fields, v.v) ELSE Null

(***************************************************************************)
(* Payload types: a struct, or an Option of a struct.                      *)
(***************************************************************************)
PayloadTy(optional, fields) == [optional |-> optional, fields |-> fields]

IpAddrPayload == PayloadTy(FALSE, IpAddrPayloadFields)
AuthReqPayload == PayloadTy(FALSE, AuthReqPayloadFields)
RegisterPayload == PayloadTy(FALSE, RegisterPayloadFields)
EmptyPayloadStrictTy == PayloadTy(FALSE, EmptyPayloadStrictFields)
\* pub type EmptyPayload = Option<EmptyPayloadStrict>
EmptyPayload == PayloadTy(TRUE, EmptyPayloadStrictFields)

SerializePayload(pty, v) ==
    IF pty.optional THEN SerializeOption(pty.fields, v) ELSE SerializeStruct(pty.fields, v)

DeserializePayload(pty, value) ==
    IF pty.optional THEN DeserializeOption(pty.fields, value)
    ELSE DeserializeStruct(pty.fields, value)

\* a faulty missing_field that never reads an absent field as None
MissingFieldAlwaysErr(pty, name) == MissingFieldErr(name)

\* serde's missing_field: a field that is not on the wire reads as None when
\* its type is an Option, and is an error otherwise
MissingField(pty, name) ==
    IF pty.optional THEN Ok(None) ELSE MissingFieldErr(name)

(***************************************************************************)
(* Adjacently tagged enums: tag = "type", content = "payload",             *)
(* rename_all = "SCREAMING_SNAKE_CASE".                                    *)
(***************************************************************************)
Variant(name, tag, pty) == [name |-> name, tag |-> tag, pty |-> pty]

BAN_IP == <<"B", "A", "N", "_", "I", "P">>
UNBAN_IP == <<"U", "N", "B", "A", "N", "_", "I", "P">>
AUTHENTICATE == <<"A", "U", "T", "H", "E", "N", "T", "I", "C", "A", "T", "E">>
DEAUTHENTICATE == <<"D", "E">> \o AUTHENTICATE
REGISTER_USER == <<"R", "E", "G", "I", "S", "T", "E", "R", "_", "U", "S", "E", "R">>
SOME_TYPE == <<"S", "O", "M", "E", "_", "T", "Y", "P", "E">>
NOT_A_REAL_VARIANT ==
    <<"N", "O", "T", "_", "A", "_", "R", "E", "A", "L", "_",
      "V", "A", "R", "I", "A", "N", "T">>

AdminRequest ==
    << Variant("BanIp", BAN_IP, IpAddrPayload),
       Variant("UnbanIp", UNBAN_IP, IpAddrPayload) >>

AuthRequest ==
    << Variant("Authenticate", AUTHENTICATE, AuthReqPayload),
       Variant("Deauthenticate", DEAUTHENTICATE, EmptyPayload),
       Variant("RegisterUser", REGISTER_USER, RegisterPayload) >>

\* the surrounding type the examples of EmptyPayloadStrict assume
StrictRequest ==
    << Variant("SomeType", SOME_TYPE, EmptyPayloadStrictTy) >>

Enum(e) ==
    CASE e = "AdminRequest" -> AdminRequest
      [] e = "AuthRequest" -> AuthRequest
      [] e = "StrictRequest" -> StrictRequest

VariantNamed(enum, name) == enum[CHOOSE i \in 1..Len(enum) : enum[i].name = name]

\* derived Serialize: the tag member, then the content member
SerializeAdjacent(enum, v) ==
    LET var == VariantNamed(enum, v.variant)
    IN  Obj(<< <<"type", Str(EscapeStr(var.tag))>>,
               <<"payload", SerializePayload(var.pty, v.payload)>> >>)

\* a faulty tag reader that falls back to the first variant
DeserializeVariantDefaulting(enum, value) ==
    IF value.k # "str" THEN Err("invalid type")
    ELSE LET s == ParseStr(value.text).s
         IN  IF \E i \in 1..Len(enum) : enum[i].tag = s
             THEN Ok(enum[CHOOSE i \in 1..Len(enum) : enum[i].tag = s])
             ELSE Ok(enum[1])

\* the variant a tag value names
DeserializeVariant(enum, value) ==
    IF value.k # "str" THEN Err("invalid type")
    ELSE LET s == ParseStr(value.text).s
         IN  IF \E i \in 1..Len(enum) : enum[i].tag = s
             THEN Ok(enum[CHOOSE i \in 1..Len(enum) : enum[i].tag = s])
             ELSE Err("unknown variant")

\* the content of a variant, once the variant is known
DeserializeContent(var, value) ==
    LET r == DeserializePayload(var.pty, value)
    IN  IF r.ok THEN Ok([variant |-> var.name, payload |-> r.v]) ELSE r

\* a faulty handling of the absent content that treats every variant as a unit
MissingContentAsUnit(var) ==
    Ok([variant |-> var.name, payload |-> IF var.pty.optional THEN None ELSE EmptyPayloadStrict])

\* a variant whose content member is not on the wire
MissingContent(var) ==
    LET r == MissingField(var.pty, "payload")
    IN  IF r.ok THEN Ok([variant |-> var.name, payload |-> r.v]) ELSE r

IsRelevant(m) == m[1] \in {"type", "payload"}

\* derived visit_map of an adjacently tagged enum.  Members other than the
\* tag and the content are skipped.  The tag is read as soon as it is met; a
\* content member met before the tag is buffered undecoded until the tag is
\* known.
DeserializeAdjacent(enum, value) ==
    IF value.k # "obj" THEN Err("invalid type")
    ELSE
    LET rs == SelectSeq(value.members, IsRelevant)
    IN  IF rs = <<>> THEN MissingFieldErr("type")
        ELSE IF rs[1][1] = "type"
        THEN LET var == DeserializeVariant(enum, rs[1][2])
             IN  IF ~var.ok THEN var
                 ELSE IF Len(rs) = 1 THEN MissingContent(var.v)
                 ELSE IF rs[2][1] = "type" THEN DuplicateFieldErr("type")
                 ELSE LET r == DeserializeContent(var.v, rs[2][2])
                      IN  IF ~r.ok THEN r
                          ELSE IF Len(rs) > 2 THEN DuplicateFieldErr(rs[3][1])
                          ELSE r
        ELSE IF Len(rs) = 1 THEN MissingFieldErr("type")
             ELSE IF rs[2][1] = "payload" THEN DuplicateFieldErr("payload")
             ELSE LET var == DeserializeVariant(enum, rs[2][2])
                  IN  IF ~var.ok THEN var
                      ELSE LET r == DeserializeContent(var.v, rs[1][2])
                           IN  IF ~r.ok THEN r
                               ELSE IF Len(rs) > 2 THEN DuplicateFieldErr(rs[3][1])
                               ELSE r

(***************************************************************************)
(* Metadata wrappers: one metadata field, and the inner value flattened    *)
(* into the same object.                                                   *)
(***************************************************************************)
\* the metadata field of each wrapper, under the name the struct declares
MetaField(kind) ==
    CASE kind = "TokenPayload" -> Field("token", "token", "Token")
      [] kind = "UserIdPayload" -> Field("id", "id", "UserId")

Wrapper(kind, ity, inner, meta) == [kind |-> kind, ity |-> ity, meta |-> meta, inner |-> inner]

\* a faulty encoder that leaves the metadata entry out
SerializeFlatInnerOnly(wv) == Obj(SerializeMembers(wv.ity, wv.inner))

\* derived Serialize with a flattened field: the metadata entry, then the
\* entries of the inner value
SerializeFlat(wv) ==
    LET mf == MetaField(wv.kind)
    IN  Obj(<< <<mf.wire, SerializeTy(mf.ty, wv.meta)>> >> \o SerializeMembers(wv.ity, wv.inner))

\* derived visit_map with a flattened field: the metadata key is decoded where
\* it is met (twice is an error), every other member is collected; at the end a
\* metadata field never seen is an error, and the inner type decodes from the
\* collected members
RECURSIVE VisitFlat(_, _, _, _, _)
VisitFlat(mf, ity, members, meta, collect) ==
    IF members = <<>>
    THEN IF ~meta.some THEN MissingFieldErr(mf.wire)
         ELSE LET r == VisitMap(ity, collect, << >>)
              IN  IF r.ok THEN Ok([meta |-> meta.v, inner |-> r.v]) ELSE r
    ELSE LET key == members[1][1]
             val == members[1][2]
         IN  IF key = mf.wire
             THEN LET d == DeserializeTy(mf.ty, val)
                  IN  IF meta.some THEN DuplicateFieldErr(key)
                      ELSE IF ~d.ok THEN d
                      ELSE VisitFlat(mf, ity, Tail(members), Some(d.v), collect)
             ELSE VisitFlat(mf, ity, Tail(members), meta, Append(collect, members[1]))

\* a faulty decoder that hands the whole object, metadata member included, to
\* the inner type
DeserializeFlatWholeObject(kind, ity, value) ==
    IF value.k # "obj" THEN Err("invalid type")
    ELSE LET m == VisitFlat(MetaField(kind), << >>, value.members, None, << >>)
             i == DeserializeStruct(ity, value)
         IN  IF ~m.ok THEN m
             ELSE IF ~i.ok THEN i
             ELSE Ok([meta |-> m.v.meta, inner |-> i.v])

DeserializeFlat(kind, ity, value) ==
    IF value.k # "obj" THEN Err("invalid type")
    ELSE VisitFlat(MetaField(kind), ity, value.members, None, << >>)

(***************************************************************************)
(* Values the model draws from.                                            *)
(***************************************************************************)
TyValues(ty) ==
    CASE ty = "IpAddr" -> IpAddrs
      [] ty = "BorrowedStr" -> Strings
      [] ty = "Int" -> 0..MaxVal
      [] ty = "Token" -> Tokens
      [] ty = "UserId" -> UserIds

FieldNames(fields) == {fields[i].name : i \in 1..Len(fields)}

StructValues(fields) ==
    IF fields = << >> THEN {EmptyPayloadStrict}
    ELSE {v \in [FieldNames(fields) -> TyValues(fields[1].ty)] :
             \A i \in 1..Len(fields) : v[fields[i].name] \in TyValues(fields[i].ty)}

PayloadValues(pty) ==
    IF pty.optional THEN {None} \cup {Some(x) : x \in StructValues(pty.fields)}
    ELSE StructValues(pty.fields)

EnvelopeValues(enum) ==
    UNION {{[variant |-> enum[i].name, payload |-> p] : p \in PayloadValues(enum[i].pty)} :
              i \in 1..Len(enum)}

\* what may arrive from the network
WireTags == {BAN_IP, UNBAN_IP, AUTHENTICATE, DEAUTHENTICATE, REGISTER_USER,
             SOME_TYPE, NOT_A_REAL_VARIANT}

GoodIp == Str(<<"1", "0", ".", "0", ".", "0", ".", "1">>)
BadIp == Str(<<"1", "0", ".", "0">>)
GoodStr == Str(<<"a">>)

\* payload objects: with and without each required field, and with a field
\* of the wrong type
WirePayloadObjs ==
    { Obj(<< >>),
      Obj(<< <<"ip", GoodIp>> >>),
      Obj(<< <<"ip", BadIp>> >>),
      Obj(<< <<"username", GoodStr>> >>),
      Obj(<< <<"username", GoodStr>>, <<"password", GoodStr>> >>),
      Obj(<< <<"username", Num(0)>>, <<"password", GoodStr>> >>),
      Obj(<< <<"username", GoodStr>>, <<"password", GoodStr>>, <<"email", GoodStr>> >>) }

WirePayloads == {Null, GoodStr} \cup WirePayloadObjs

WireMembers ==
    {<<"type", Str(t)>> : t \in WireTags}
        \cup {<<"payload", p>> : p \in WirePayloads}
        \cup {<<"extra", Null>>}

WireEnvelopes == {Obj(ms) : ms \in SeqsUpTo(WireMembers, MaxMembers)}

(***************************************************************************)
(* State.  op is the last operation, arg the value it was given, wire the  *)
(* JSON document being carried, out the result of a decode.  w is a        *)
(* metadata wrapper and ret what the last wrapper operation returned.      *)
(* bare is a bare copy of the wrapper's inner record that receives the     *)
(* same writes, metaLog the last two metadata values given to the wrapper. *)
(***************************************************************************)
NoArg == [enum |-> "none", kind |-> "none"]
NoWire == [k |-> "none"]
NoOut == [enum |-> "none"]
NoWrapper == [kind |-> "none"]
NoRet == [of |-> "none"]

InitCommon ==
    /\ op = "init"
    /\ arg = NoArg
    /\ wire = NoWire
    /\ out = NoOut
    /\ w = NoWrapper
    /\ bare = NoWrapper
    /\ metaLog = NoWrapper
    /\ ret = NoRet

(***************************************************************************)
(* Envelope operations.                                                    *)
(***************************************************************************)
Serialize(e, v) ==
    /\ op = "init"
    /\ op' = "serialize"
    /\ arg' = [enum |-> e, v |-> v]
    /\ wire' = SerializeAdjacent(Enum(e), v)
    /\ out' = NoOut
    /\ UNCHANGED <<w, bare, metaLog, ret>>

Deserialize(e) ==
    /\ op \in {"serialize", "reserialize", "receive"}
    /\ op' = "deserialize"
    /\ out' = [enum |-> e, r |-> DeserializeAdjacent(Enum(e), wire)]
    /\ UNCHANGED <<arg, wire, w, bare, metaLog, ret>>

SerializeAdminRequest == \E v \in EnvelopeValues(AdminRequest) : Serialize("AdminRequest", v)
SerializeAuthRequest == \E v \in EnvelopeValues(AuthRequest) : Serialize("AuthRequest", v)
SerializeStrictRequest == \E v \in EnvelopeValues(StrictRequest) : Serialize("StrictRequest", v)

\* a document arrives from the network
Receive ==
    \E doc \in WireEnvelopes :
        /\ op = "init"
        /\ op' = "receive"
        /\ arg' = NoArg
        /\ wire' = doc
        /\ out' = NoOut
        /\ UNCHANGED <<w, bare, metaLog, ret>>

\* a decoded value is encoded again
Reserialize ==
    /\ op = "deserialize"
    /\ out.r.ok
    /\ op' = "reserialize"
    /\ arg' = [enum |-> out.enum, v |-> out.r.v]
    /\ wire' = SerializeAdjacent(Enum(out.enum), out.r.v)
    /\ out' = NoOut
    /\ UNCHANGED <<w, bare, metaLog, ret>>

DeserializeAdminRequest == Deserialize("AdminRequest")
DeserializeAuthRequest == Deserialize("AuthRequest")
DeserializeStrictRequest == Deserialize("StrictRequest")

NextEnvelope ==
    \/ SerializeAdminRequest
    \/ SerializeAuthRequest
    \/ SerializeStrictRequest
    \/ Receive
    \/ Reserialize
    \/ DeserializeAdminRequest
    \/ DeserializeAuthRequest
    \/ DeserializeStrictRequest

SpecEnvelope == InitCommon /\ [][NextEnvelope]_vars

(***************************************************************************)
(* Wrapper operations.                                                     *)
(***************************************************************************)
IntField(name) == Field(name, name, "Int")

\* inner record types the wrappers are instantiated with
InnerTypes ==
    { << IntField("x") >>,
      << IntField("user_id") >>,
      << IntField("token") >>,
      << IntField("x"), IntField("id") >>,
      << IntField("x"), IntField("token") >> }

Kinds == {"TokenPayload", "UserIdPayload"}
MetaValues(kind) == TyValues(MetaField(kind).ty)

Live == w.kind \in Kinds

\* a faulty replace that returns the value it stores
MemReplaceReturnsNew(dest, src) == [dest |-> src, result |-> src]

\* std::mem::replace(dest, src): src is stored, the old value is returned
MemReplace(dest, src) == [dest |-> src, result |-> dest]

\* TokenPayload::new / UserIdPayload::new
New(kind) ==
    \E ity \in InnerTypes : \E i \in StructValues(ity) : \E m \in MetaValues(kind) :
        /\ op = "init"
        /\ op' = "new"
        /\ arg' = [kind |-> kind, inner |-> i, meta |-> m]
        /\ w' = Wrapper(kind, ity, i, m)
        /\ bare' = [kind |-> "bare", inner |-> i]
        /\ metaLog' = [kind |-> "log", prev |-> m, last |-> m]
        /\ ret' = NoRet
        /\ UNCHANGED <<wire, out>>

\* token() / id()
Metadata(kind) ==
    /\ w.kind = kind
    /\ op' = "metadata"
    /\ ret' = [of |-> "metadata", v |-> w.meta]
    /\ UNCHANGED <<arg, wire, out, w, bare, metaLog>>

\* set_token(t) / set_id(id)
ReplaceMetadata(kind) ==
    /\ w.kind = kind
    /\ \E m \in MetaValues(kind) :
        LET r == MemReplace(w.meta, m)
        IN  /\ op' = "replace_metadata"
            /\ w' = [w EXCEPT !.meta = r.dest]
            /\ ret' = [of |-> "replace_metadata", v |-> r.result, new |-> m]
            /\ metaLog' = [metaLog EXCEPT !.prev = metaLog.last, !.last = m]
            /\ UNCHANGED <<arg, wire, out, bare>>

\* the field a delegated access reaches: deref / deref_mut lend self.inner
DerefField(wv, f) == wv.inner[f]
\* a faulty deref_mut that lends a copy of the inner value
DerefMutAssignToCopy(wv, f, v) == wv
DerefMutAssign(wv, f, v) == [wv EXCEPT !.inner[f] = v]

\* reading inner field f through the wrapper
Deref(kind) ==
    /\ w.kind = kind
    /\ \E f \in DOMAIN w.inner :
        /\ op' = "deref"
        /\ ret' = [of |-> "deref", field |-> f, v |-> DerefField(w, f)]
        /\ UNCHANGED <<arg, wire, out, w, bare, metaLog>>

\* writing inner field f through the wrapper; the bare copy gets the same write
DerefMut(kind) ==
    /\ w.kind = kind
    /\ \E f \in DOMAIN w.inner : \E v \in 0..MaxVal :
        /\ op' = "deref_mut"
        /\ w' = DerefMutAssign(w, f, v)
        /\ bare' = [bare EXCEPT !.inner[f] = v]
        /\ ret' = [of |-> "deref_mut", field |-> f, v |-> v]
        /\ UNCHANGED <<arg, wire, out, metaLog>>

IntoInnerOf(wv) == <<wv.inner, wv.meta>>

\* into_inner(self): the wrapper is consumed
IntoInner(kind) ==
    /\ w.kind = kind
    /\ op' = "into_inner"
    /\ ret' = [of |-> "into_inner", after |-> op, v |-> IntoInnerOf(w)]
    /\ w' = [kind |-> "moved"]
    /\ UNCHANGED <<arg, wire, out, bare, metaLog>>

\* the wrapper is encoded to be sent, and is not used afterwards
SerializeWrapper(kind) ==
    /\ w.kind = kind
    /\ op' = "serialize_flat"
    /\ arg' = w
    /\ wire' = SerializeFlat(w)
    /\ out' = NoOut
    /\ w' = [kind |-> "moved"]
    /\ UNCHANGED <<bare, metaLog, ret>>

FlatKeys == {"token", "id", "user_id", "x"}
FlatWireVals == {Num(1), Str(<<"a">>)}
FlatWireMembers == {<<k, v>> : k \in FlatKeys, v \in FlatWireVals}
FlatWireObjs == {Obj(ms) : ms \in SeqsUpTo(FlatWireMembers, MaxFlatMembers)}

\* a flat object arrives from the network
ReceiveFlat ==
    \E doc \in FlatWireObjs \cup {Str(<<"a">>)} :
        /\ op = "init"
        /\ op' = "receive_flat"
        /\ wire' = doc
        /\ UNCHANGED <<arg, out, w, bare, metaLog, ret>>

\* the document is decoded as a wrapper: as the type that was encoded, or as
\* any instantiation when it came from the network
DeserializeWrapper(kind) ==
    \E ity \in InnerTypes :
        /\ op \in {"serialize_flat", "receive_flat"}
        /\ op = "serialize_flat" => (arg.kind = kind /\ arg.ity = ity)
        /\ op' = "deserialize_flat"
        /\ out' = [kind |-> kind, ity |-> ity, r |-> DeserializeFlat(kind, ity, wire)]
        /\ UNCHANGED <<arg, wire, w, bare, metaLog, ret>>

TokenPayloadNew == New("TokenPayload")
UserIdPayloadNew == New("UserIdPayload")
Token == Metadata("TokenPayload")
Id == Metadata("UserIdPayload")
SetToken == ReplaceMetadata("TokenPayload")
SetId == ReplaceMetadata("UserIdPayload")
TokenPayloadDeref == Deref("TokenPayload")
UserIdPayloadDeref == Deref("UserIdPayload")
TokenPayloadDerefMut == DerefMut("TokenPayload")
UserIdPayloadDerefMut == DerefMut("UserIdPayload")
TokenPayloadIntoInner == IntoInner("TokenPayload")
UserIdPayloadIntoInner == IntoInner("UserIdPayload")
SerializeTokenPayload == SerializeWrapper("TokenPayload")
SerializeUserIdPayload == SerializeWrapper("UserIdPayload")
DeserializeTokenPayload == DeserializeWrapper("TokenPayload")
DeserializeUserIdPayload == DeserializeWrapper("UserIdPayload")

NextWrapper ==
    \/ TokenPayloadNew
    \/ UserIdPayloadNew
    \/ Token
    \/ Id
    \/ SetToken
    \/ SetId
    \/ TokenPayloadDeref
    \/ UserIdPayloadDeref
    \/ TokenPayloadDerefMut
    \/ UserIdPayloadDerefMut
    \/ TokenPayloadIntoInner
    \/ UserIdPayloadIntoInner
    \/ SerializeTokenPayload
    \/ SerializeUserIdPayload
    \/ ReceiveFlat
    \/ DeserializeTokenPayload
    \/ DeserializeUserIdPayload

SpecWrapper == InitCommon /\ [][NextWrapper]_vars

(***************************************************************************)
(* Properties.                                                             *)
(***************************************************************************)
MembersOf(doc) == IF doc.k = "obj" THEN doc.members ELSE << >>
MembersKeyed(doc, key) == SelectSeq(MembersOf(doc), LAMBDA m : m[1] = key)
MembersNotKeyed(doc, key) == SelectSeq(MembersOf(doc), LAMBDA m : m[1] # key)
EmptyObj == Obj(<< >>)

\* the document has exactly one type member, and it holds tag
TaggedOnce(doc, tag) ==
    /\ Len(MembersKeyed(doc, "type")) = 1
    /\ MembersKeyed(doc, "type")[1][2] = Str(tag)

\* C1: decoding the encoding of an AdminRequest or AuthRequest value yields
\* the value: decode(encode(v)) = v.
C1_RoundTrip ==
    (op = "deserialize" /\ arg.enum \in {"AdminRequest", "AuthRequest"} /\ out.enum = arg.enum)
        => out.r = Ok(arg.v)

Deauthenticate(p) == [variant |-> "Deauthenticate", payload |-> p]

\* a DEAUTHENTICATE document whose payload member is absent or is {}
IsDeauthDoc(doc) ==
    /\ TaggedOnce(doc, DEAUTHENTICATE)
    /\ Len(MembersKeyed(doc, "payload")) <= 1
    /\ \A i \in 1..Len(MembersKeyed(doc, "payload")) : MembersKeyed(doc, "payload")[i][2] = EmptyObj

\* C3 as stated: a DEAUTHENTICATE document with payload {} decodes to a value
\* equal to the one the same document without the payload member decodes to.
C3_AbsentEqualsEmptyObject ==
    (op = "deserialize" /\ out.enum = "AuthRequest" /\ IsDeauthDoc(wire))
        => out.r = DeserializeAdjacent(AuthRequest, Obj(MembersNotKeyed(wire, "payload")))

\* C3 amended: both forms decode successfully to the Deauthenticate variant;
\* the absent payload decodes to None and the payload {} to
\* Some(EmptyPayloadStrict {}).
C3_BothFormsDecode ==
    (op = "deserialize" /\ out.enum = "AuthRequest" /\ IsDeauthDoc(wire))
        => out.r = Ok(Deauthenticate(IF MembersKeyed(wire, "payload") = << >>
                                     THEN None ELSE Some(EmptyPayloadStrict)))

C3_Witness ==
    /\ op = "deserialize"
    /\ out.enum = "AuthRequest"
    /\ IsDeauthDoc(wire)
    /\ MembersKeyed(wire, "payload") = << >>
    /\ out.r.ok

\* C4 as stated: re-encoding a decoded Deauthenticate always writes the
\* payload member as the empty object {}.
C4_AlwaysEmptyObject ==
    (op = "reserialize" /\ arg.enum = "AuthRequest" /\ arg.v.variant = "Deauthenticate")
        => MembersKeyed(wire, "payload") = << <<"payload", EmptyObj>> >>

\* C4 amended: re-encoding a decoded Deauthenticate writes the payload member
\* as {} when the decoded payload is Some, and as null when it is None.
C4_EmptyObjectOrNull ==
    (op = "reserialize" /\ arg.enum = "AuthRequest" /\ arg.v.variant = "Deauthenticate")
        => wire = Obj(<< <<"type", Str(DEAUTHENTICATE)>>,
                         <<"payload", IF arg.v.payload.some THEN EmptyObj ELSE Null>> >>)

C4_Witness ==
    /\ op = "reserialize"
    /\ arg.enum = "AuthRequest"
    /\ arg.v.variant = "Deauthenticate"
    /\ arg.v.payload.some
    /\ MembersKeyed(wire, "payload") = << <<"payload", EmptyObj>> >>

C5_ReplaceReturnsPrevious ==
    /\ op = "replace_metadata" => (ret.v = metaLog.prev /\ w.meta = ret.new)
    /\ op = "metadata" => ret.v = metaLog.last

C5_Witness ==
    /\ op = "replace_metadata"
    /\ ret.v # ret.new
    /\ ret.v # arg.meta
    /\ ret.v = metaLog.prev

\* C9: a delegated read returns what the bare copy of the inner record holds
\* after the same writes, into_inner returns that inner value, and while the
\* wrapper lives its inner value is the bare copy's (replace-metadata calls do
\* not change it) and its metadata is the one given last (delegated writes do
\* not change it).
C9_DelegationRefinesBareInner ==
    /\ op = "deref" => ret.v = bare.inner[ret.field]
    /\ op = "into_inner" => ret.v[1] = bare.inner
    /\ Live => (w.inner = bare.inner /\ w.meta = metaLog.last)

C9_Witness ==
    /\ op = "deref"
    /\ ret.v # arg.inner[ret.field]
    /\ w.meta # arg.meta
    /\ ret.v = bare.inner[ret.field]

\* the value has the type the payload field is declared with: the text of an
\* address for ip, a string for the others
ValueMatches(key, v) ==
    IF key = "ip" THEN \E ip \in IpAddrs : v = Str(FmtIp(ip)) ELSE v.k = "str"

\* the payload value does not have the shape of the payload type: it is no
\* object (and no null for an Option), or a declared field is missing from it
\* or holds a value of the wrong type
ShapeMismatch(pty, p) ==
    IF p.k = "obj"
    THEN \E i \in 1..Len(pty.fields) :
            \A j \in 1..Len(p.members) :
                ~(p.members[j][1] = pty.fields[i].wire
                    /\ ValueMatches(pty.fields[i].wire, p.members[j][2]))
    ELSE ~(pty.optional /\ p.k = "null")

TagsOf(enum) == {enum[i].tag : i \in 1..Len(enum)}
TagValues(doc) == {MembersKeyed(doc, "type")[i][2] : i \in 1..Len(MembersKeyed(doc, "type"))}
VariantTagged(enum, tag) == enum[CHOOSE i \in 1..Len(enum) : enum[i].tag = tag]

C7_FlatDecodeFailsExactly ==
    op = "deserialize_flat" =>
        LET mf == MetaField(out.kind)
            metas == MembersKeyed(wire, mf.wire)
            rest == Obj(MembersNotKeyed(wire, mf.wire))
            metaOk == /\ wire.k = "obj"
                      /\ Len(metas) = 1
                      /\ \E m \in MetaValues(out.kind) : SerializeTy(mf.ty, m) = metas[1][2]
            inner == DeserializeStruct(out.ity, rest)
        IN  /\ out.r.ok <=> (metaOk /\ inner.ok)
            /\ out.r.ok => /\ out.r.v.inner = inner.v
                           /\ SerializeTy(mf.ty, out.r.v.meta) = metas[1][2]

C7_Witness ==
    /\ op = "deserialize_flat"
    /\ out.kind = "TokenPayload"
    /\ wire = Obj(<< <<"token", Str(<<"a">>)>>, <<"x", Num(1)>> >>)
    /\ \E i \in 1..Len(out.ity) : out.ity[i].wire = "token"
    /\ out.r = MissingFieldErr("token")

\* C8: a strict empty payload decodes when the payload member is the empty
\* object, and is a missing field error when the payload member is absent.
C8_StrictRejectsAbsence ==
    (op = "deserialize" /\ out.enum = "StrictRequest" /\ TaggedOnce(wire, SOME_TYPE)) =>
        /\ MembersKeyed(wire, "payload") = << >> => out.r = MissingFieldErr("payload")
        /\ MembersKeyed(wire, "payload") = << <<"payload", EmptyObj>> >>
            => out.r = Ok([variant |-> "SomeType", payload |-> EmptyPayloadStrict])

C8_Witness ==
    /\ op = "deserialize"
    /\ out.enum = "StrictRequest"
    /\ wire = Obj(<< <<"type", Str(SOME_TYPE)>> >>)
    /\ ~out.r.ok

\* the field name each wrapper's documentation tells inner types to avoid
DocumentedName(kind) ==
    CASE kind = "TokenPayload" -> "token"
      [] kind = "UserIdPayload" -> "user_id"

\* C10: for every inner type with no field of the documented name (token for
\* TokenPayload, user_id for UserIdPayload), decoding the encoding of a
\* wrapper yields its metadata and its inner value.
C10_DocumentedNameIsTheOnlyCollision ==
    (op = "deserialize_flat" /\ arg.kind \in Kinds
            /\ DocumentedName(arg.kind) \notin WireNames(arg.ity))
        => out.r = Ok([meta |-> arg.meta, inner |-> arg.inner])

====
